---- MODULE Spec2Model ----
(***************************************************************************)
(* A model of create.py, the orchestrator's staged pipeline controller.    *)
(*                                                                         *)
(* Every process of Procs is one invocation of create.py.  The processes   *)
(* share the file system (the deployments directory, the inventory         *)
(* directories and the openshift-ansible clone directory) and nothing      *)
(* else.  A process walks through __main__ (argument checks, deployment    *)
(* selection), then _main (configuration load, inventory check,            *)
(* confirmation, rendering, pip, and the cluster or the install stages),   *)
(* and every call of io.run is recorded in invoked[p] together with the    *)
(* outcome the external command reported.                                  *)
(***************************************************************************)
EXTENDS Integers, Sequences, FiniteSets, TLC

VARIABLES
    files,            \* deployments/<name>.yaml: name -> configuration document
    inventories,      \* the directories present under openshift/inventories
    clone_exists,     \* whether the directory openshift-ansible exists
    args,             \* ARGS / cli_args of each process
    env,              \* os.environ of each process
    pc,               \* the position of each process in create.py
    deployment_name,  \* deployment_file in __main__, deployment_name in _main
    deployment,       \* the document loaded by yaml.load
    confirmation_word,\* the word the operator is asked to type
    confirmation,     \* what the operator typed
    play_i,           \* the position of the play loop in deployment.openshift.play
    invoked,          \* the io.run calls made so far, in order, with their outcome
    success,          \* the value _main returned
    raised,           \* the key of the KeyError that ended the process
    exitCode          \* the exit code of the process

vars == <<files, inventories, clone_exists, args, env, pc, deployment_name,
          deployment, confirmation_word, confirmation, play_i, invoked,
          success, raised, exitCode>>

fsVars == <<files, inventories, clone_exists>>

(***************************************************************************)
(* Bounds and the small sets the inputs are drawn from.                    *)
(***************************************************************************)
MaxPlays == 3

Procs == {"p1", "p2"}

PlayName(i) == "play" \o ToString(i) \o ".yml"

PlayList(n) == [i \in 1..n |-> PlayName(i)]

PlayLists == {PlayList(n) : n \in 0..MaxPlays}

EmailVar == "TF_VAR_master_certbot_email"

KeypairVar == "TF_VAR_keypair_name"

FullEnv == (EmailVar :> "admin@example.org") @@ (KeypairVar :> "okd-key")

\* os.environ without the variables of the set gone
EnvWithout(gone) == [v \in (DOMAIN FullEnv) \ gone |-> FullEnv[v]]

Environments == {EnvWithout(gone) : gone \in SUBSET (DOMAIN FullEnv)}

Fields == {"name", "openshift.inventory_dir", "openshift.ansible_tag",
           "openshift.play", "ansible.version", "terraform.dir",
           "cluster.master.generate_cert", "cluster.public_hostname"}

\* A complete configuration document of the deployment called n.
Document(n, gen, plays, tdir) ==
    [f \in Fields |->
        CASE f = "name" -> n
          [] f = "openshift.inventory_dir" -> "inv-" \o n
          [] f = "openshift.ansible_tag" -> "openshift-ansible-3.11.0"
          [] f = "openshift.play" -> plays
          [] f = "ansible.version" -> "2.7.10"
          [] f = "terraform.dir" -> tdir
          [] f = "cluster.master.generate_cert" -> gen
          [] f = "cluster.public_hostname" -> "okd.example.org"]

\* The document doc with the fields of the set gone left out.
Without(doc, gone) == [f \in (DOMAIN doc) \ gone |-> doc[f]]

NoDocument == [f \in {} |-> ""]

NoArgs ==
    [quiet |-> FALSE, cluster |-> FALSE, okd |-> FALSE,
     display_deployments |-> FALSE, skip_rendering |-> FALSE,
     skip_terraform |-> FALSE, skip_pre_openshift |-> FALSE,
     skip_openshift |-> FALSE, skip_post_openshift |-> FALSE,
     auto_acknowledge |-> FALSE, deployment |-> ""]

(***************************************************************************)
(* How a step ends.  Each of the four sets the position of the process,    *)
(* the value _main returned, the KeyError raised and the exit code.        *)
(***************************************************************************)
\* the step is done and the process goes on at label
Continue(p, label) ==
    /\ pc' = [pc EXCEPT ![p] = label]
    /\ UNCHANGED <<success, raised, exitCode>>

\* sys.exit(code) in __main__
SysExit(p, code) ==
    /\ pc' = [pc EXCEPT ![p] = "exited"]
    /\ exitCode' = [exitCode EXCEPT ![p] = code]
    /\ UNCHANGED <<success, raised>>

\* a slip: the KeyError is caught and the run reported as a success
KeyErrorSwallowed(p, key) ==
    /\ pc' = [pc EXCEPT ![p] = "returned"]
    /\ success' = [success EXCEPT ![p] = "True"]
    /\ UNCHANGED <<raised, exitCode>>

\* An uncaught KeyError: the interpreter reports the key and exits with 1.
KeyError(p, key) ==
    /\ pc' = [pc EXCEPT ![p] = "exited"]
    /\ exitCode' = [exitCode EXCEPT ![p] = 1]
    /\ raised' = [raised EXCEPT ![p] = key]
    /\ UNCHANGED success

\* "return value" in _main
Return(p, value) ==
    /\ pc' = [pc EXCEPT ![p] = "returned"]
    /\ success' = [success EXCEPT ![p] = IF value THEN "True" ELSE "False"]
    /\ UNCHANGED <<raised, exitCode>>

(***************************************************************************)
(* __main__                                                                *)
(***************************************************************************)
\* PARSER.parse_args(): the process starts with its arguments and environment.
ParseArgs(p, a, e) ==
    /\ pc[p] = "idle"
    /\ args' = [args EXCEPT ![p] = a]
    /\ env' = [env EXCEPT ![p] = e]
    /\ Continue(p, "check_mode")
    /\ UNCHANGED <<fsVars, deployment_name, deployment, confirmation_word,
                   confirmation, play_i, invoked>>

\* a slip: a command line without a mode is let through
ModeMissingNever(a) == FALSE

\* User must have specified 'cluster' or 'open-shift'
ModeMissing(a) == ~a.cluster /\ ~a.okd

CheckMode(p) ==
    /\ pc[p] = "check_mode"
    /\ IF ModeMissing(args[p])
          THEN SysExit(p, 1)
          ELSE Continue(p, "list_deployments")
    /\ UNCHANGED <<fsVars, args, env, deployment_name, deployment,
                   confirmation_word, confirmation, play_i, invoked>>

\* glob.glob('deployments/*.yaml'), with the path and the suffix removed
Deployments == DOMAIN files

\* a slip: an empty directory is not noticed
NoDeploymentsNever == FALSE

\* "if not deployments": there are no deployments
NoDeployments == Deployments = {}

ListDeployments(p) ==
    /\ pc[p] = "list_deployments"
    /\ IF NoDeployments
          THEN SysExit(p, 1)
          ELSE IF args[p].display_deployments
                  THEN SysExit(p, 0)
                  ELSE Continue(p, "select")
    /\ UNCHANGED <<fsVars, args, env, deployment_name, deployment,
                   confirmation_word, confirmation, play_i, invoked>>

\* "if not ARGS.deployment": no deployment was named (None or an empty string)
Unnamed(a) == a.deployment = ""

\* a slip: a single deployment is already taken for a choice to make
AmbiguousFromOne(a) == Unnamed(a) /\ Cardinality(Deployments) >= 1

\* a slip: with no name given a deployment is picked whatever their number
AmbiguousNever(a) == FALSE

\* a deployment wasn't named, and there's more than one
Ambiguous(a) == Unnamed(a) /\ Cardinality(Deployments) > 1

SelectDeployment(p) ==
    /\ pc[p] = "select"
    /\ IF Ambiguous(args[p])
          THEN SysExit(p, 1) /\ UNCHANGED deployment_name
          ELSE \E n \in (IF Unnamed(args[p]) THEN Deployments
                                             ELSE {args[p].deployment}) :
                 /\ deployment_name' = [deployment_name EXCEPT ![p] = n]
                 /\ IF n \in DOMAIN files
                       THEN Continue(p, "load")
                       ELSE SysExit(p, 1)
    /\ UNCHANGED <<fsVars, args, env, deployment, confirmation_word,
                   confirmation, play_i, invoked>>

\* success = _main(ARGS, deployment_file); if not success: sys.exit(1)
Exit(p) ==
    /\ pc[p] = "returned"
    /\ SysExit(p, IF success[p] = "True" THEN 0 ELSE 1)
    /\ UNCHANGED <<fsVars, args, env, deployment_name, deployment,
                   confirmation_word, confirmation, play_i, invoked>>

(***************************************************************************)
(* _main: configuration, inventory and the confirmation                    *)
(***************************************************************************)
\* deployment[...]: whether the document has the field
Has(doc, field) == field \in DOMAIN doc

\* deployment[field], for a field the document has
Get(doc, field) == doc[field]

\* deployment_file exists and is loaded
LoadConfig(p) ==
    /\ pc[p] = "load"
    /\ IF deployment_name[p] \notin DOMAIN files
          THEN Return(p, FALSE) /\ UNCHANGED deployment
          ELSE /\ deployment' = [deployment EXCEPT ![p] = files[deployment_name[p]]]
               /\ Continue(p, "inventory")
    /\ UNCHANGED <<fsVars, args, env, deployment_name, confirmation_word,
                   confirmation, play_i, invoked>>

\* a slip: the directory is never looked for
InventoryPresentAlways(inventory_dir) == TRUE

\* os.path.isdir('openshift/inventories/{}'.format(inventory_dir))
InventoryPresent(inventory_dir) == inventory_dir \in inventories

\* There must be an openshift/inventories directory
CheckInventory(p) ==
    /\ pc[p] = "inventory"
    /\ IF ~Has(deployment[p], "openshift.inventory_dir")
          THEN KeyError(p, "openshift.inventory_dir")
          ELSE IF ~InventoryPresent(Get(deployment[p], "openshift.inventory_dir"))
                  THEN Return(p, FALSE)
                  ELSE Continue(p, "hello")
    /\ UNCHANGED <<fsVars, args, env, deployment_name, deployment,
                   confirmation_word, confirmation, play_i, invoked>>

\* io.get_confirmation_word(): one of the words the operator may be asked for
ConfirmationWords == {"yes-please", "go-ahead"}

\* input(): what the operator may type, nothing included
Responses == ConfirmationWords \cup {""}

\* a slip: only an empty answer declines
DeclinedOnlyEmpty(typed, word) == typed = ""

\* confirmation != confirmation_word
Declined(typed, word) == typed # word

\* The banner, then the confirmation unless --auto-acknowledge.
Hello(p) ==
    /\ pc[p] = "hello"
    /\ IF ~Has(deployment[p], "name")
          THEN KeyError(p, "name")
               /\ UNCHANGED <<confirmation_word, confirmation>>
          ELSE IF args[p].auto_acknowledge
                  THEN Continue(p, "render")
                       /\ UNCHANGED <<confirmation_word, confirmation>>
                  ELSE \E word \in ConfirmationWords, typed \in Responses :
                         /\ confirmation_word' =
                                [confirmation_word EXCEPT ![p] = word]
                         /\ confirmation' = [confirmation EXCEPT ![p] = typed]
                         /\ IF Declined(typed, word)
                               THEN Return(p, TRUE)
                               ELSE Continue(p, "render")
    /\ UNCHANGED <<fsVars, args, env, deployment_name, deployment, play_i,
                   invoked>>

(***************************************************************************)
(* io.run(cmd, cwd, quiet) -> (rv, output).  The external command decides  *)
(* rv; the call is recorded with the place in _main that made it.          *)
(***************************************************************************)
\* what an external command may report
Outcomes == BOOLEAN

Invocation(stage, cmd, cwd, quiet, rv) ==
    [stage |-> stage, cmd |-> cmd, cwd |-> cwd, quiet |-> quiet, rv |-> rv]

\* a slip: the outcome of the command is not looked at
FailedNever(rv) == FALSE

\* "if not rv: return False" after every io.run
Failed(rv) == ~rv

\* a slip: with --quiet a failed command does not end the run
RunQuietly(p, stage, cmd, cwd, rv, then) ==
    /\ invoked' = [invoked EXCEPT ![p] =
                      Append(@, Invocation(stage, cmd, cwd, args[p].quiet, rv))]
    /\ IF Failed(rv) /\ ~args[p].quiet THEN Return(p, FALSE) ELSE then

\* rv, _ = io.run(cmd, cwd, cli_args.quiet); if not rv: return False;
\* otherwise the step ends as then says
Run(p, stage, cmd, cwd, rv, then) ==
    /\ invoked' = [invoked EXCEPT ![p] =
                      Append(@, Invocation(stage, cmd, cwd, args[p].quiet, rv))]
    /\ IF Failed(rv) THEN Return(p, FALSE) ELSE then

(***************************************************************************)
(* _main: the stages both modes share                                      *)
(***************************************************************************)
\* Render (jinja2 files)
Render(p) ==
    /\ pc[p] = "render"
    /\ IF args[p].skip_rendering
          THEN Continue(p, "pip_upgrade") /\ UNCHANGED invoked
          ELSE \E rv \in Outcomes :
                 Run(p, "render", "./render.py " \o deployment_name[p], ".",
                     rv, Continue(p, "pip_upgrade"))
    /\ UNCHANGED <<fsVars, args, env, deployment_name, deployment,
                   confirmation_word, confirmation, play_i>>

\* a slip: --skip-rendering skips the upgrade of pip too
PipUpgradeSkippable(p) ==
    /\ pc[p] = "pip_upgrade"
    /\ IF args[p].skip_rendering
          THEN Continue(p, "pip_ansible") /\ UNCHANGED invoked
          ELSE \E rv \in Outcomes :
                 Run(p, "pip_upgrade", "pip install --upgrade pip", ".",
                     rv, Continue(p, "pip_ansible"))
    /\ UNCHANGED <<fsVars, args, env, deployment_name, deployment,
                   confirmation_word, confirmation, play_i>>

\* Make sure pip is up to date
PipUpgrade(p) ==
    /\ pc[p] = "pip_upgrade"
    /\ \E rv \in Outcomes :
         Run(p, "pip_upgrade", "pip install --upgrade pip", ".",
             rv, Continue(p, "pip_ansible"))
    /\ UNCHANGED <<fsVars, args, env, deployment_name, deployment,
                   confirmation_word, confirmation, play_i>>

\* Install the ansible version named in the deployment file
PipAnsible(p) ==
    /\ pc[p] = "pip_ansible"
    /\ IF ~Has(deployment[p], "ansible.version")
          THEN KeyError(p, "ansible.version") /\ UNCHANGED invoked
          ELSE \E rv \in Outcomes :
                 Run(p, "pip_ansible",
                     "pip install ansible==" \o Get(deployment[p], "ansible.version"),
                     ".", rv, Continue(p, "mode"))
    /\ UNCHANGED <<fsVars, args, env, deployment_name, deployment,
                   confirmation_word, confirmation, play_i>>

\* t_dir = deployment['terraform']['dir']; if cli_args.cluster: ...
SelectMode(p) ==
    /\ pc[p] = "mode"
    /\ IF ~Has(deployment[p], "terraform.dir")
          THEN KeyError(p, "terraform.dir")
          ELSE IF args[p].cluster
                  THEN Continue(p, "terraform_init")
                  ELSE Continue(p, "clone")
    /\ UNCHANGED <<fsVars, args, env, deployment_name, deployment,
                   confirmation_word, confirmation, play_i, invoked>>

(***************************************************************************)
(* _main: cluster mode                                                     *)
(***************************************************************************)
\* cwd = 'terraform/{}'.format(t_dir)
TerraformCwd(doc) == "terraform/" \o Get(doc, "terraform.dir")

\* a slip: the state file is not keyed by the deployment
StateFileShared(name) == ".terraform.tfstate"

\* ' -state=.terraform.{}'.format(deployment_name)
StateFile(name) == ".terraform." \o name

TerraformInit(p) ==
    /\ pc[p] = "terraform_init"
    /\ IF args[p].skip_terraform
          THEN Continue(p, "bastion") /\ UNCHANGED invoked
          ELSE \E rv \in Outcomes :
                 Run(p, "terraform_init", "terraform init",
                     TerraformCwd(deployment[p]), rv,
                     Continue(p, "terraform_apply"))
    /\ UNCHANGED <<fsVars, args, env, deployment_name, deployment,
                   confirmation_word, confirmation, play_i>>

TerraformApply(p) ==
    /\ pc[p] = "terraform_apply"
    /\ \E rv \in Outcomes :
         Run(p, "terraform_apply",
             "terraform apply -auto-approve -state=" \o StateFile(deployment_name[p]),
             TerraformCwd(deployment[p]), rv, Continue(p, "bastion"))
    /\ UNCHANGED <<fsVars, args, env, deployment_name, deployment,
                   confirmation_word, confirmation, play_i>>

\* a slip: the e-mail variable is read outside "if generate_cert"
BastionMissingEmailAlways(doc, e) ==
    IF ~Has(doc, "cluster.master.generate_cert")
       THEN "cluster.master.generate_cert"
    ELSE IF EmailVar \notin DOMAIN e
       THEN EmailVar
    ELSE IF Get(doc, "cluster.master.generate_cert")
            /\ ~Has(doc, "cluster.public_hostname")
       THEN "cluster.public_hostname"
    ELSE IF KeypairVar \notin DOMAIN e
       THEN KeypairVar
    ELSE ""

\* The first key the bastion stage looks up and does not find, in the order
\* of the lookups: generate_cert; with it set the e-mail variable and the
\* public hostname; then the keypair variable.  "" when every lookup succeeds.
BastionMissing(doc, e) ==
    IF ~Has(doc, "cluster.master.generate_cert")
       THEN "cluster.master.generate_cert"
    ELSE IF Get(doc, "cluster.master.generate_cert") /\ EmailVar \notin DOMAIN e
       THEN EmailVar
    ELSE IF Get(doc, "cluster.master.generate_cert")
            /\ ~Has(doc, "cluster.public_hostname")
       THEN "cluster.public_hostname"
    ELSE IF KeypairVar \notin DOMAIN e
       THEN KeypairVar
    ELSE ""

BastionExtraEnv(doc, e) ==
    IF Get(doc, "cluster.master.generate_cert")
       THEN " -e master_cert_email=" \o e[EmailVar]
            \o " -e public_hostname=" \o Get(doc, "cluster.public_hostname")
       ELSE ""

BastionCmd(doc, e) ==
    "ansible-playbook site.yaml " \o BastionExtraEnv(doc, e)
    \o " -e keypair_name=" \o e[KeypairVar]
    \o " -e deployment=" \o Get(doc, "openshift.inventory_dir")

\* Run the bastion site file.
Bastion(p) ==
    /\ pc[p] = "bastion"
    /\ IF args[p].skip_pre_openshift
          THEN Continue(p, "terraform_output") /\ UNCHANGED invoked
          ELSE IF BastionMissing(deployment[p], env[p]) # ""
                  THEN KeyError(p, BastionMissing(deployment[p], env[p]))
                       /\ UNCHANGED invoked
                  ELSE \E rv \in Outcomes :
                         Run(p, "bastion", BastionCmd(deployment[p], env[p]),
                             "ansible/bastion", rv,
                             Continue(p, "terraform_output"))
    /\ UNCHANGED <<fsVars, args, env, deployment_name, deployment,
                   confirmation_word, confirmation, play_i>>

\* a slip: the output step forgets the terraform skip flag
SkipOutputNever(a) == FALSE

\* a slip: the output step follows the skip flag of the pre-install pass
SkipOutputByPreOpenShift(a) == a.skip_pre_openshift

\* the second "if not cli_args.skip_terraform"
SkipOutput(a) == a.skip_terraform

\* a slip: cluster mode does not leave and falls into the install stages
LeaveFallsThrough(p) == Continue(p, "clone")

\* "Leave.": return True at the end of the cluster branch
Leave(p) == Return(p, TRUE)

\* Now expose the Bastion's IP, and leave.
TerraformOutput(p) ==
    /\ pc[p] = "terraform_output"
    /\ IF SkipOutput(args[p])
          THEN Leave(p) /\ UNCHANGED invoked
          ELSE \E rv \in Outcomes :
                 Run(p, "terraform_output",
                     "terraform output -state=" \o StateFile(deployment_name[p]),
                     TerraformCwd(deployment[p]), rv, Leave(p))
    /\ UNCHANGED <<fsVars, args, env, deployment_name, deployment,
                   confirmation_word, confirmation, play_i>>

(***************************************************************************)
(* _main: install mode                                                     *)
(***************************************************************************)
\* a slip: the clone directory is not looked for
CloneAlways == TRUE

\* if not os.path.exists('openshift-ansible')
CloneNeeded == ~clone_exists

\* Clone OpenShift Ansible if the clone directory does not exist.  A clone
\* that succeeds leaves the directory; one that fails may or may not.
Clone(p) ==
    /\ pc[p] = "clone"
    /\ IF ~CloneNeeded
          THEN Continue(p, "checkout") /\ UNCHANGED <<invoked, clone_exists>>
          ELSE \E rv \in Outcomes :
                 /\ Run(p, "clone",
                        "git clone https://github.com/openshift/openshift-ansible.git --no-checkout",
                        ".", rv, Continue(p, "checkout"))
                 /\ clone_exists' \in (IF rv THEN {TRUE} ELSE BOOLEAN)
    /\ UNCHANGED <<files, inventories, args, env, deployment_name, deployment,
                   confirmation_word, confirmation, play_i>>

\* Checkout the required OpenShift Ansible TAG
Checkout(p) ==
    /\ pc[p] = "checkout"
    /\ IF ~Has(deployment[p], "openshift.ansible_tag")
          THEN KeyError(p, "openshift.ansible_tag") /\ UNCHANGED invoked
          ELSE \E rv \in Outcomes :
                 Run(p, "checkout",
                     "git checkout tags/" \o Get(deployment[p], "openshift.ansible_tag"),
                     "openshift-ansible", rv, Continue(p, "pre_os"))
    /\ UNCHANGED <<fsVars, args, env, deployment_name, deployment,
                   confirmation_word, confirmation, play_i>>

\* The first key the Pre-OpenShift stage looks up and does not find.
PreOsMissing(doc) ==
    IF ~Has(doc, "cluster.master.generate_cert")
       THEN "cluster.master.generate_cert"
    ELSE IF Get(doc, "cluster.master.generate_cert")
            /\ ~Has(doc, "cluster.public_hostname")
       THEN "cluster.public_hostname"
    ELSE ""

PreOsCmd(doc) ==
    "ansible-playbook site.yaml "
    \o (IF Get(doc, "cluster.master.generate_cert")
           THEN " -e public_hostname=" \o Get(doc, "cluster.public_hostname")
           ELSE "")
    \o " -i ../../openshift/inventories/"
    \o Get(doc, "openshift.inventory_dir") \o "/inventory"

\* Ansible (Pre-OpenShift)
PreOpenShift(p) ==
    /\ pc[p] = "pre_os"
    /\ IF args[p].skip_pre_openshift
          THEN Continue(p, "plays") /\ UNCHANGED invoked
          ELSE IF PreOsMissing(deployment[p]) # ""
                  THEN KeyError(p, PreOsMissing(deployment[p]))
                       /\ UNCHANGED invoked
                  ELSE \E rv \in Outcomes :
                         Run(p, "pre_os", PreOsCmd(deployment[p]),
                             "ansible/pre-os", rv, Continue(p, "plays"))
    /\ UNCHANGED <<fsVars, args, env, deployment_name, deployment,
                   confirmation_word, confirmation, play_i>>

\* the plays named in the deployment
Plays(doc) == Get(doc, "openshift.play")

\* a slip: the loop stops one play early
PlaysDoneOneEarly(doc, i) == i >= Len(Plays(doc)) - 1

\* the "for play in ..." loop has run out of plays after i of them
PlaysDone(doc, i) == i >= Len(Plays(doc))

\* the command of the i-th play
PlayCmd(doc, i) ==
    "ansible-playbook ../openshift-ansible/playbooks/" \o Plays(doc)[i]
    \o " -i inventories/" \o Get(doc, "openshift.inventory_dir") \o "/inventory"

\* for play in deployment['openshift']['play']: one play per step, play_i
\* counts the plays already run
OpenShiftPlays(p) ==
    /\ pc[p] = "plays"
    /\ IF args[p].skip_openshift
          THEN Continue(p, "post_os") /\ UNCHANGED <<invoked, play_i>>
          ELSE IF ~Has(deployment[p], "openshift.play")
                  THEN KeyError(p, "openshift.play")
                       /\ UNCHANGED <<invoked, play_i>>
          ELSE IF PlaysDone(deployment[p], play_i[p])
                  THEN Continue(p, "post_os") /\ UNCHANGED <<invoked, play_i>>
                  ELSE \E rv \in Outcomes :
                         /\ Run(p, "play", PlayCmd(deployment[p], play_i[p] + 1),
                                "openshift", rv, Continue(p, "plays"))
                         /\ play_i' = [play_i EXCEPT ![p] = @ + 1]
    /\ UNCHANGED <<fsVars, args, env, deployment_name, deployment,
                   confirmation_word, confirmation>>

\* Ansible (Post-OpenShift), and success
PostOpenShift(p) ==
    /\ pc[p] = "post_os"
    /\ IF args[p].skip_post_openshift
          THEN Return(p, TRUE) /\ UNCHANGED invoked
          ELSE \E rv \in Outcomes :
                 Run(p, "post_os", "ansible-playbook site.yaml",
                     "ansible/post-os", rv, Return(p, TRUE))
    /\ UNCHANGED <<fsVars, args, env, deployment_name, deployment,
                   confirmation_word, confirmation, play_i>>

(***************************************************************************)
(* The specifications                                                      *)
(***************************************************************************)
\* One step of process p after it has parsed its arguments.
Step(p) ==
    \/ CheckMode(p)
    \/ ListDeployments(p)
    \/ SelectDeployment(p)
    \/ LoadConfig(p)
    \/ CheckInventory(p)
    \/ Hello(p)
    \/ Render(p)
    \/ PipUpgrade(p)
    \/ PipAnsible(p)
    \/ SelectMode(p)
    \/ TerraformInit(p)
    \/ TerraformApply(p)
    \/ Bastion(p)
    \/ TerraformOutput(p)
    \/ Clone(p)
    \/ Checkout(p)
    \/ PreOpenShift(p)
    \/ OpenShiftPlays(p)
    \/ PostOpenShift(p)
    \/ Exit(p)

\* No process has started; the file system holds fs, with the inventory
\* directories inv and the clone directory present or not.
InitWith(fileSystems, inventorySets) ==
    /\ files \in fileSystems
    /\ inventories \in inventorySets
    /\ clone_exists \in BOOLEAN
    /\ args = [p \in Procs |-> NoArgs]
    /\ env = [p \in Procs |-> FullEnv]
    /\ pc = [p \in Procs |-> "idle"]
    /\ deployment_name = [p \in Procs |-> ""]
    /\ deployment = [p \in Procs |-> NoDocument]
    /\ confirmation_word = [p \in Procs |-> ""]
    /\ confirmation = [p \in Procs |-> ""]
    /\ play_i = [p \in Procs |-> 0]
    /\ invoked = [p \in Procs |-> <<>>]
    /\ success = [p \in Procs |-> "None"]
    /\ raised = [p \in Procs |-> ""]
    /\ exitCode = [p \in Procs |-> -1]

\* The command lines with every combination of the mode and skip flags.
FlagCombinations(quiets, displays, acks, names) ==
    [quiet : quiets, cluster : BOOLEAN, okd : BOOLEAN,
     display_deployments : displays, skip_rendering : BOOLEAN,
     skip_terraform : BOOLEAN, skip_pre_openshift : BOOLEAN,
     skip_openshift : BOOLEAN, skip_post_openshift : BOOLEAN,
     auto_acknowledge : acks, deployment : names]

\* A deployments directory with the one complete document "prod".
ProdOnly ==
    {("prod" :> Document("prod", gen, plays, "aws")) :
        gen \in BOOLEAN, plays \in PlayLists}

(***************************************************************************)
(* Spec: one invocation of create.py, for the deployment "prod" with a     *)
(* complete configuration and environment, every combination of mode and  *)
(* skip flags, with and without --auto-acknowledge, every play list of up  *)
(* to MaxPlays plays, and every outcome of every external command.         *)
(***************************************************************************)
Init == InitWith(ProdOnly, {{"inv-prod"}})

Next ==
    \/ \E a \in FlagCombinations({FALSE}, {FALSE}, BOOLEAN, {"prod"}) :
          ParseArgs("p1", a, FullEnv)
    \/ Step("p1")

Spec == Init /\ [][Next]_vars

\* A deployments directory with the one document "prod", complete or with
\* one of its fields left out.
ProdMaybeIncomplete ==
    {("prod" :> Without(Document("prod", gen, PlayList(1), "aws"), gone)) :
        gen \in BOOLEAN, gone \in {{}} \cup {{f} : f \in Fields}}

(***************************************************************************)
(* SpecConfig: one invocation with --auto-acknowledge, every combination   *)
(* of mode and skip flags, a configuration that is complete or lacks one   *)
(* field, and an environment with or without each of the two variables.    *)
(***************************************************************************)
InitConfig == InitWith(ProdMaybeIncomplete, {{"inv-prod"}})

NextConfig ==
    \/ \E a \in FlagCombinations({FALSE}, {FALSE}, {TRUE}, {"prod"}),
          e \in Environments :
          ParseArgs("p1", a, e)
    \/ Step("p1")

SpecConfig == InitConfig /\ [][NextConfig]_vars

\* A deployments directory with the complete documents "prod" and "test",
\* which provision from the same terraform directory.
ProdAndTest ==
    {("prod" :> Document("prod", gen, PlayList(1), "aws"))
     @@ ("test" :> Document("test", gen, PlayList(1), "aws")) :
        gen \in BOOLEAN}

\* Command lines with --auto-acknowledge and one mode, for the deployments
\* named, with the skip flags drawn from the sets given.
OneMode(names, skipTerraform, skipInstall) ==
    {a \in [quiet : {FALSE}, cluster : BOOLEAN, okd : BOOLEAN,
            display_deployments : {FALSE}, skip_rendering : {FALSE},
            skip_terraform : skipTerraform, skip_pre_openshift : skipInstall,
            skip_openshift : skipInstall, skip_post_openshift : skipInstall,
            auto_acknowledge : {TRUE}, deployment : names] :
        a.cluster # a.okd}

(***************************************************************************)
(* SpecSeq: two invocations in a row, the second started once the first    *)
(* has exited, on the file system the first has left.                      *)
(***************************************************************************)
InitSeq == InitWith(ProdAndTest, {{"inv-prod", "inv-test"}})

NextSeq ==
    \/ \E a \in OneMode({"prod"}, {FALSE}, BOOLEAN) : ParseArgs("p1", a, FullEnv)
    \/ Step("p1")
    \/ /\ pc["p1"] = "exited"
       /\ \E a \in OneMode({"prod"}, {FALSE}, BOOLEAN) : ParseArgs("p2", a, FullEnv)
    \/ Step("p2")

SpecSeq == InitSeq /\ [][NextSeq]_vars

(***************************************************************************)
(* SpecConc: two invocations started as separate processes that run        *)
(* concurrently, in any interleaving of their steps, for the same or for   *)
(* different deployments.                                                  *)
(***************************************************************************)
InitConc == InitWith(ProdAndTest, {{"inv-prod", "inv-test"}})

NextConc ==
    \E p \in Procs :
        \/ \E a \in OneMode({"prod", "test"}, BOOLEAN, {FALSE}) :
              ParseArgs(p, a, FullEnv)
        \/ Step(p)

SpecConc == InitConc /\ [][NextConc]_vars

\* The deployments directory empty, with the document "prod", or with the
\* documents "prod" and "test".
NoneOneOrTwo ==
    {[n \in names |-> Document(n, FALSE, PlayList(1), "aws")] :
        names \in {{}, {"prod"}, {"prod", "test"}}}

(***************************************************************************)
(* SpecCli: one invocation with every combination of the mode flags, the   *)
(* display option, --auto-acknowledge and the skip flags, with no          *)
(* deployment named or one that exists or does not, on a deployments       *)
(* directory with no, one or two documents and with the inventory          *)
(* directories present or not.                                             *)
(***************************************************************************)
InitCli == InitWith(NoneOneOrTwo, SUBSET {"inv-prod", "inv-test"})

NextCli ==
    \/ \E a \in FlagCombinations({FALSE}, BOOLEAN, BOOLEAN,
                                 {"", "prod", "ghost"}) :
          ParseArgs("p1", a, FullEnv)
    \/ Step("p1")

SpecCli == InitCli /\ [][NextCli]_vars

\* A deployments directory with the one complete document "prod", which asks
\* for a certificate and has two plays.
ProdWithCert == {"prod" :> Document("prod", TRUE, PlayList(2), "aws")}

\* The command lines with one mode, with or without --quiet and
\* --auto-acknowledge, and every combination of the skip flags.
QuietOrNot ==
    {a \in FlagCombinations(BOOLEAN, {FALSE}, BOOLEAN, {"prod"}) :
        a.cluster # a.okd}

(***************************************************************************)
(* SpecQuiet: two invocations in a row whose command lines differ in       *)
(* --quiet only, the second started once the first has exited; the         *)
(* operator's answers and the outcomes of the commands are free in both.   *)
(***************************************************************************)
InitQuiet == InitWith(ProdWithCert, {{"inv-prod"}})

NextQuiet ==
    \/ \E a \in QuietOrNot : ParseArgs("p1", a, FullEnv)
    \/ Step("p1")
    \/ /\ pc["p1"] = "exited"
       /\ ParseArgs("p2", [args["p1"] EXCEPT !.quiet = ~@], FullEnv)
    \/ Step("p2")

SpecQuiet == InitQuiet /\ [][NextQuiet]_vars

(***************************************************************************)
(* What the properties below speak about.                                  *)
(***************************************************************************)
Ended(p) == pc[p] = "exited"

\* the places of _main whose commands process p has invoked, in order
Stages(p) == [i \in 1..Len(invoked[p]) |-> invoked[p][i].stage]

AllSucceeded(p) == \A i \in 1..Len(invoked[p]) : invoked[p][i].rv

SomeFailed(p) == \E i \in 1..Len(invoked[p]) : ~invoked[p][i].rv

\* the operator was asked and typed something else than the word
DeclinedRun(p) ==
    /\ ~args[p].auto_acknowledge
    /\ confirmation_word[p] # ""
    /\ confirmation[p] # confirmation_word[p]

\* _main went through the confirmation and ran to its last line
Completed(p) == Ended(p) /\ success[p] = "True" /\ ~DeclinedRun(p)

Optional(skipped, stages) == IF skipped THEN <<>> ELSE stages

RECURSIVE Repeat(_, _)
Repeat(stage, n) == IF n = 0 THEN <<>> ELSE <<stage>> \o Repeat(stage, n - 1)

\* the clone is the first half of the source checkout: the stage groups
\* invoked are the stages with the clone left out
RECURSIVE WithoutClone(_)
WithoutClone(stages) ==
    IF stages = <<>> THEN <<>>
    ELSE IF Head(stages) = "clone" THEN WithoutClone(Tail(stages))
    ELSE <<Head(stages)>> \o WithoutClone(Tail(stages))

\* the stage groups section 4.4 of the specification declares for the mode
\* of the command line a, with the skipped ones left out
DeclaredStages(a, doc) ==
    IF a.cluster
       THEN Optional(a.skip_terraform, <<"terraform_init", "terraform_apply">>)
            \o Optional(a.skip_pre_openshift, <<"bastion">>)
            \o Optional(a.skip_terraform, <<"terraform_output">>)
       ELSE <<"checkout">>
            \o Optional(a.skip_pre_openshift, <<"pre_os">>)
            \o (IF a.skip_openshift THEN <<>>
                   ELSE Repeat("play", Len(doc["openshift.play"])))
            \o Optional(a.skip_post_openshift, <<"post_os">>)

\* the commands _main invokes before it looks at the mode
Preamble(a) ==
    Optional(a.skip_rendering, <<"render">>) \o <<"pip_upgrade", "pip_ansible">>

ClusterStages == {"terraform_init", "terraform_apply", "bastion", "terraform_output"}

InstallStages == {"clone", "checkout", "pre_os", "play", "post_os"}

PreambleStages == {"render", "pip_upgrade", "pip_ansible"}

\* the stages whose skip flag the command line a sets
SkippedStages(a) ==
    (IF a.skip_rendering THEN {"render"} ELSE {})
    \cup (IF a.skip_terraform
             THEN {"terraform_init", "terraform_apply", "terraform_output"}
             ELSE {})
    \cup (IF a.skip_pre_openshift THEN {"bastion", "pre_os"} ELSE {})
    \cup (IF a.skip_openshift THEN {"play"} ELSE {})
    \cup (IF a.skip_post_openshift THEN {"post_os"} ELSE {})

(***************************************************************************)
(* C1 (as stated): in a run that passed the confirmation and in which      *)
(* every command succeeded, the commands invoked are exactly the declared  *)
(* stage groups of the mode that are not skipped, in the declared order,   *)
(* and no other command is invoked.                                        *)
(***************************************************************************)
C1_Original ==
    \A p \in Procs :
        Completed(p) =>
            WithoutClone(Stages(p)) = DeclaredStages(args[p], deployment[p])

(***************************************************************************)
(* C1 (amended): in a run that passed the confirmation and ran to the end  *)
(* of _main, the commands invoked are the preamble (render.py unless       *)
(* --skip-rendering, pip install --upgrade pip, pip install ansible==...)  *)
(* followed by exactly the declared stage groups of the mode that are not  *)
(* skipped, in the declared order; and in every run, at every moment, no   *)
(* command of the other mode and no command of a skipped group has been    *)
(* invoked.                                                                *)
(***************************************************************************)
C1_StagesAreDeclaredGroups ==
    \A p \in Procs :
        /\ Completed(p) =>
              WithoutClone(Stages(p)) =
                 Preamble(args[p]) \o DeclaredStages(args[p], deployment[p])
        /\ \A i \in 1..Len(invoked[p]) :
              /\ invoked[p][i].stage \in
                    PreambleStages \cup
                    (IF args[p].cluster THEN ClusterStages ELSE InstallStages)
              /\ invoked[p][i].stage \notin SkippedStages(args[p])

\* an install run, confirmed by the operator, that skipped the pre-install
\* pass and ran two plays and the post-install pass
C1_Witness ==
    /\ Completed("p1")
    /\ ~args["p1"].cluster /\ ~args["p1"].auto_acknowledge
    /\ args["p1"].skip_pre_openshift /\ ~args["p1"].skip_openshift
    /\ Stages("p1") = <<"render", "pip_upgrade", "pip_ansible", "clone",
                        "checkout", "play", "play", "post_os">>

(***************************************************************************)
(* C2: once an invoked command has reported failure, no further command is *)
(* invoked (the failed call is the last one), _main returns False and the  *)
(* process exits with code 1.                                              *)
(***************************************************************************)
C2_FirstFailureHalts ==
    \A p \in Procs :
        \A i \in 1..Len(invoked[p]) :
            ~invoked[p][i].rv =>
                /\ i = Len(invoked[p])
                /\ pc[p] \in {"returned", "exited"}
                /\ success[p] = "False"
                /\ raised[p] = ""
                /\ Ended(p) => exitCode[p] = 1

\* a cluster run whose terraform apply failed after three commands succeeded
C2_Witness ==
    /\ Ended("p1") /\ exitCode["p1"] = 1
    /\ Len(invoked["p1"]) = 5
    /\ invoked["p1"][5].stage = "terraform_apply" /\ ~invoked["p1"][5].rv
    /\ \A i \in 1..4 : invoked["p1"][i].rv

(***************************************************************************)
(* C3: in install mode with the platform-install stage not skipped, the    *)
(* plays invoked are the plays of the configuration's list, one invocation *)
(* each, in list order, up to and including the first that fails; after a  *)
(* failed play no later play and no post-install pass is invoked and the   *)
(* run fails; when the stage is reached and no play fails (an empty list   *)
(* included) every play has been invoked by the end of the run and the     *)
(* post-install pass has been invoked unless it is skipped.                *)
(***************************************************************************)
\* the invocations of plays by process p, in order
PlayInvocations(p) == SelectSeq(invoked[p], LAMBDA c : c.stage = "play")

\* the stages before the plays have let the run through
ReachedPlays(p) ==
    /\ \E i \in 1..Len(invoked[p]) :
          invoked[p][i].stage = "checkout" /\ invoked[p][i].rv
    /\ \/ args[p].skip_pre_openshift
       \/ \E i \in 1..Len(invoked[p]) :
             invoked[p][i].stage = "pre_os" /\ invoked[p][i].rv

\* C3: the plays invoked are the list's prefix up to the first failure
C3_PlaysArePrefixToFirstFailure ==
    \A p \in Procs :
        (/\ ~args[p].cluster /\ ~args[p].skip_openshift
         /\ Has(deployment[p], "openshift.play")) =>
            LET ran == PlayInvocations(p)
                n == Len(ran)
            IN  /\ n <= Len(Plays(deployment[p]))
                /\ \A i \in 1..n :
                      /\ ran[i].cmd = PlayCmd(deployment[p], i)
                      /\ ran[i].cwd = "openshift"
                      /\ i < n => ran[i].rv
                /\ (n > 0 /\ ~ran[n].rv) =>
                      /\ "post_os" \notin {invoked[p][i].stage : i \in 1..Len(invoked[p])}
                      /\ invoked[p][Len(invoked[p])] = ran[n]
                      /\ success[p] = "False"
                      /\ Ended(p) => exitCode[p] = 1
                /\ (Ended(p) /\ ReachedPlays(p) /\ \A i \in 1..n : ran[i].rv) =>
                      /\ n = Len(Plays(deployment[p]))
                      /\ ~args[p].skip_post_openshift =>
                            invoked[p][Len(invoked[p])].stage = "post_os"

\* the list [A, B, C] of the specification, where B fails
C3_Witness ==
    /\ Ended("p1") /\ ~args["p1"].cluster /\ ~args["p1"].skip_openshift
    /\ Has(deployment["p1"], "openshift.play")
    /\ Len(Plays(deployment["p1"])) = 3
    /\ Len(PlayInvocations("p1")) = 2
    /\ PlayInvocations("p1")[1].rv /\ ~PlayInvocations("p1")[2].rv
    /\ exitCode["p1"] = 1

(***************************************************************************)
(* C4: when --auto-acknowledge is not given and the operator types         *)
(* anything but the confirmation word (nothing included), the run invokes  *)
(* no external command, _main returns True and the process exits with 0.   *)
(***************************************************************************)
C4_DeclinedRunsNothing ==
    \A p \in Procs :
        (/\ ~args[p].auto_acknowledge
         /\ confirmation_word[p] # ""
         /\ confirmation[p] # confirmation_word[p]) =>
            /\ invoked[p] = <<>>
            /\ pc[p] \in {"returned", "exited"}
            /\ success[p] = "True"
            /\ Ended(p) => exitCode[p] = 0

\* the operator typed the other word, and the process has exited
C4_Witness ==
    /\ Ended("p1") /\ ~args["p1"].auto_acknowledge
    /\ confirmation_word["p1"] = "yes-please"
    /\ confirmation["p1"] = "go-ahead"
    /\ exitCode["p1"] = 0

(***************************************************************************)
(* C5 (as stated): a run whose configuration lacks a field that a stage    *)
(* reads fails before any external command has been invoked.               *)
(***************************************************************************)
LazyFields == {"ansible.version", "terraform.dir", "cluster.master.generate_cert",
               "cluster.public_hostname", "openshift.ansible_tag", "openshift.play"}

\* C5 as stated: a missing lazily read field is detected before any command
C5_Original ==
    \A p \in Procs : raised[p] \in LazyFields => invoked[p] = <<>>

(***************************************************************************)
(* C5 (amended): a run whose configuration lacks a field read by a         *)
(* non-skipped stage of the active mode never completes; it ends with a    *)
(* KeyError naming the first such field it reads and exit code 1, at the   *)
(* point of use: the command that needs the field and the commands of all  *)
(* later stages are never invoked, while the commands of the earlier       *)
(* stages (pip install --upgrade pip at least) have been invoked, and      *)
(* succeeded.                                                              *)
(***************************************************************************)
\* the fields a complete run with the command line a reads
Required(a, doc) ==
    {"openshift.inventory_dir", "name", "ansible.version", "terraform.dir"}
    \cup (IF a.skip_pre_openshift THEN {}
          ELSE {"cluster.master.generate_cert"}
               \cup (IF Has(doc, "cluster.master.generate_cert")
                        /\ doc["cluster.master.generate_cert"]
                        THEN {"cluster.public_hostname"} ELSE {}))
    \cup (IF a.cluster THEN {} ELSE {"openshift.ansible_tag"})
    \cup (IF a.cluster \/ a.skip_openshift THEN {} ELSE {"openshift.play"})

\* the stages whose commands are built after the field has been read
StagesFrom(field) ==
    CASE field = "ansible.version" ->
            {"pip_ansible"} \cup ClusterStages \cup InstallStages
      [] field = "terraform.dir" -> ClusterStages \cup InstallStages
      [] field = "openshift.ansible_tag" ->
            {"checkout", "pre_os", "play", "post_os"}
      [] field \in {"cluster.master.generate_cert", "cluster.public_hostname"} ->
            {"bastion", "terraform_output", "pre_os", "play", "post_os"}
      [] field = "openshift.play" -> {"play", "post_os"}

\* C5 amended: a missing field ends the run at its point of use, after the
\* earlier stages' commands and before the command that needs it
C5_MissingFieldFailsAtUse ==
    \A p \in Procs :
        /\ Completed(p) => Required(args[p], deployment[p]) \subseteq DOMAIN deployment[p]
        /\ raised[p] \in LazyFields =>
              /\ Ended(p) /\ exitCode[p] = 1 /\ success[p] = "None"
              /\ raised[p] \notin DOMAIN deployment[p]
              /\ raised[p] \in Required(args[p], deployment[p])
              /\ invoked[p] # <<>>
              /\ AllSucceeded(p)
              /\ \A i \in 1..Len(invoked[p]) :
                    invoked[p][i].stage \notin StagesFrom(raised[p])

\* a cluster run without cluster.public_hostname: it fails after terraform
\* init and apply have run
C5_Witness ==
    /\ Ended("p1") /\ raised["p1"] = "cluster.public_hostname"
    /\ args["p1"].cluster
    /\ Stages("p1") = <<"render", "pip_upgrade", "pip_ansible",
                        "terraform_init", "terraform_apply">>

(***************************************************************************)
(* C6: when neither or both of --cluster and --okd are given the process   *)
(* exits with code 1 without asking for confirmation and without invoking  *)
(* any external command.                                                   *)
(***************************************************************************)
C6_ExactlyOneMode ==
    \A p \in Procs :
        (pc[p] # "idle" /\ args[p].cluster = args[p].okd) =>
            /\ invoked[p] = <<>>
            /\ confirmation_word[p] = ""
            /\ Ended(p) => exitCode[p] = 1

(***************************************************************************)
(* C7: in install mode the clone is invoked if and only if the directory   *)
(* openshift-ansible is absent when the checkout stage starts, and the tag *)
(* checkout is invoked whenever the clone was not needed or succeeded.     *)
(* Hence of two install runs in a row, the first of which cloned, the      *)
(* second does not clone and both invoke the tag checkout; and a failed    *)
(* tag checkout makes the run fail also when the directory existed.        *)
(***************************************************************************)
Grew(p) == Len(invoked'[p]) = Len(invoked[p]) + 1

Latest(p) == invoked'[p][Len(invoked'[p])]

C7_CheckoutStep ==
    \A p \in Procs :
        /\ (Grew(p) /\ Latest(p).stage = "clone") =>
              pc[p] = "clone" /\ ~clone_exists
        /\ (pc[p] = "clone" /\ pc'[p] # "clone") =>
              IF clone_exists
                 THEN invoked'[p] = invoked[p] /\ pc'[p] = "checkout"
                 ELSE /\ Grew(p) /\ Latest(p).stage = "clone"
                      /\ Latest(p).rv => (pc'[p] = "checkout" /\ clone_exists')
                      /\ ~Latest(p).rv => pc'[p] = "returned"
        /\ (pc[p] = "checkout" /\ pc'[p] # "checkout"
            /\ Has(deployment[p], "openshift.ansible_tag")) =>
              Grew(p) /\ Latest(p).stage = "checkout"

\* process p has invoked the stage, with the outcome rv
Invoked(p, stage, rv) ==
    \E i \in 1..Len(invoked[p]) :
        invoked[p][i].stage = stage /\ invoked[p][i].rv = rv

C7_TwoRuns ==
    /\ (/\ Ended("p1") /\ Ended("p2")
        /\ ~args["p1"].cluster /\ ~args["p2"].cluster
        /\ Invoked("p1", "clone", TRUE)
        /\ Invoked("p2", "pip_ansible", TRUE)
        /\ raised["p1"] = "" /\ raised["p2"] = "") =>
          /\ "clone" \notin {Stages("p2")[i] : i \in 1..Len(invoked["p2"])}
          /\ \E rv \in BOOLEAN : Invoked("p1", "checkout", rv)
          /\ \E rv \in BOOLEAN : Invoked("p2", "checkout", rv)
    /\ \A p \in Procs :
          Invoked(p, "checkout", FALSE) =>
             /\ success[p] = "False"
             /\ Ended(p) => exitCode[p] = 1

\* C7: clone only if the directory is absent, tag checkout always, in every
\* step and over two runs in a row
C7_CloneOnlyIfAbsent == [](C7_TwoRuns) /\ [][C7_CheckoutStep]_vars

\* two install runs in a row: the first cloned, the second did not and its
\* tag checkout failed
C7_Witness ==
    /\ Ended("p1") /\ Ended("p2")
    /\ Invoked("p1", "clone", TRUE) /\ exitCode["p1"] = 0
    /\ ~Invoked("p2", "clone", TRUE) /\ ~Invoked("p2", "clone", FALSE)
    /\ Invoked("p2", "checkout", FALSE)
    /\ exitCode["p2"] = 1

(***************************************************************************)
(* C8 (as stated): a run fails for the absence of the e-mail or of the     *)
(* keypair variable only in cluster mode, with the pre-install stage not   *)
(* skipped and generate_cert true.                                         *)
(***************************************************************************)
C8_Original ==
    \A p \in Procs :
        raised[p] \in {EmailVar, KeypairVar} =>
            /\ args[p].cluster /\ ~args[p].skip_pre_openshift
            /\ deployment[p]["cluster.master.generate_cert"]

(***************************************************************************)
(* C8 (amended): the e-mail variable is required only in cluster mode's    *)
(* non-skipped pre-install stage and only when generate_cert is true; the  *)
(* keypair variable is required in cluster mode's non-skipped pre-install  *)
(* stage whatever generate_cert is.  In install mode, or with the          *)
(* pre-install stage skipped, the absence of either never makes the run    *)
(* fail, and with generate_cert false the absence of the e-mail variable   *)
(* never does; the bastion play is never invoked without the variables it  *)
(* requires.                                                               *)
(***************************************************************************)
C8_EnvironmentRequiredByBastionOnly ==
    \A p \in Procs :
        /\ raised[p] \in {EmailVar, KeypairVar} =>
              /\ args[p].cluster /\ ~args[p].skip_pre_openshift
              /\ raised[p] \notin DOMAIN env[p]
              /\ Ended(p) /\ exitCode[p] = 1
        /\ raised[p] = EmailVar => deployment[p]["cluster.master.generate_cert"]
        /\ \A i \in 1..Len(invoked[p]) :
              invoked[p][i].stage = "bastion" =>
                 /\ KeypairVar \in DOMAIN env[p]
                 /\ deployment[p]["cluster.master.generate_cert"] =>
                       EmailVar \in DOMAIN env[p]

\* generate_cert is false and the keypair variable is absent: the cluster
\* run fails in the pre-install stage
C8_Witness ==
    /\ Ended("p1") /\ raised["p1"] = KeypairVar
    /\ ~deployment["p1"]["cluster.master.generate_cert"]
    /\ EmailVar \in DOMAIN env["p1"]
    /\ exitCode["p1"] = 1

(***************************************************************************)
(* C9: the provisioning state file of a run is .terraform.<deployment      *)
(* name>, for provisioning apply and for provisioning output alike, and    *)
(* two processes, concurrent or not, with different deployment names never *)
(* pass the same state file to a provisioning command.                     *)
(***************************************************************************)
\* the provisioning commands with a state file that process p has invoked
StateCommands(p) ==
    {invoked[p][i] : i \in {j \in 1..Len(invoked[p]) :
        invoked[p][j].stage \in {"terraform_apply", "terraform_output"}}}

\* C9: the state file is .terraform.<deployment name>, different for
\* different deployments
C9_StateFileKeyedByDeployment ==
    /\ \A p \in Procs : \A c \in StateCommands(p) :
          c.cmd = (IF c.stage = "terraform_apply"
                      THEN "terraform apply -auto-approve -state=.terraform."
                      ELSE "terraform output -state=.terraform.")
                  \o deployment_name[p]
    /\ \A p, q \in Procs :
          deployment_name[p] # deployment_name[q] =>
             \A c \in StateCommands(p), d \in StateCommands(q) :
                c.stage = d.stage => c.cmd # d.cmd

\* the two processes provision different deployments from the same
\* terraform directory at the same time
C9_Witness ==
    /\ pc["p1"] = "bastion" /\ pc["p2"] = "bastion"
    /\ deployment_name["p1"] = "prod" /\ deployment_name["p2"] = "test"
    /\ Invoked("p1", "terraform_apply", TRUE)
    /\ Invoked("p2", "terraform_apply", TRUE)
    /\ invoked["p1"][Len(invoked["p1"])].cwd = invoked["p2"][Len(invoked["p2"])].cwd

(***************************************************************************)
(* C10: in cluster mode no install-mode stage (clone, tag checkout,        *)
(* install-mode pre-install pass, plays, post-install pass) is ever        *)
(* invoked, whatever the skip flags and the outcomes of the commands; the  *)
(* run ends after the provisioning-output step.                            *)
(***************************************************************************)
C10_ClusterModeStopsAfterOutput ==
    \A p \in Procs :
        args[p].cluster =>
            /\ pc[p] \notin {"clone", "checkout", "pre_os", "plays", "post_os"}
            /\ \A i \in 1..Len(invoked[p]) :
                  /\ invoked[p][i].stage \notin InstallStages
                  /\ invoked[p][i].stage = "terraform_output" =>
                        /\ i = Len(invoked[p])
                        /\ pc[p] \in {"returned", "exited"}

\* a cluster run that ran to the provisioning output and has exited
C10_Witness ==
    /\ Ended("p1") /\ args["p1"].cluster /\ exitCode["p1"] = 0
    /\ invoked["p1"] # <<>>
    /\ invoked["p1"][Len(invoked["p1"])].stage = "terraform_output"

(***************************************************************************)
(* C11: when the directory openshift/inventories/<inventory_dir> which the *)
(* configuration names does not exist, the run fails before the operator   *)
(* is asked for the confirmation word and before any command is invoked,   *)
(* in both modes and whatever the skip flags: _main returns False and the  *)
(* process exits with 1.                                                   *)
(***************************************************************************)
MissingInventory(p) ==
    /\ Has(deployment[p], "openshift.inventory_dir")
    /\ Get(deployment[p], "openshift.inventory_dir") \notin inventories

C11_MissingInventoryFailsFirst ==
    \A p \in Procs :
        MissingInventory(p) =>
            /\ invoked[p] = <<>>
            /\ confirmation_word[p] = ""
            /\ pc[p] \in {"inventory", "returned", "exited"}
            /\ pc[p] = "returned" => success[p] = "False"
            /\ Ended(p) => exitCode[p] = 1

C11_Witness ==
    /\ MissingInventory("p1")
    /\ Ended("p1")
    /\ exitCode["p1"] = 1
    /\ args["p1"].okd
    /\ ~args["p1"].cluster
    /\ ~args["p1"].auto_acknowledge
    /\ ~args["p1"].skip_rendering

(***************************************************************************)
(* C12: a configuration field is required only if a stage which the mode   *)
(* and the skip flags execute uses it: no run ends with a KeyError for a   *)
(* field which no executed stage needs (terraform.dir in an install run or *)
(* with --skip-terraform, cluster.master.generate_cert with                *)
(* --skip-pre-openshift, openshift.play with --skip-openshift or in a      *)
(* cluster run, cluster.public_hostname when generate_cert is false).      *)
(***************************************************************************)
\* the fields which the stages executed for the command line a use: t_dir is
\* used by the working directory of the three terraform commands only
UsedByExecutedStage(a, doc) ==
    (Required(a, doc) \ {"terraform.dir"})
    \cup (IF a.cluster /\ ~a.skip_terraform THEN {"terraform.dir"} ELSE {})

\* C12: a run fails for the absence of a field only if an executed stage uses it
C12_FieldRequiredOnlyIfUsed ==
    \A p \in Procs :
        raised[p] \in Fields =>
            raised[p] \in UsedByExecutedStage(args[p], deployment[p])

(***************************************************************************)
(* C13: when the deployments directory holds no configuration document the *)
(* process exits with code 1 and invokes no command, whatever the other    *)
(* options (mode flags, display option, skip flags, a deployment named or  *)
(* not).                                                                   *)
(***************************************************************************)
C13_EmptyDirectoryExitsOne ==
    \A p \in Procs :
        (pc[p] # "idle" /\ Deployments = {}) =>
            /\ invoked[p] = <<>>
            /\ confirmation_word[p] = ""
            /\ pc[p] \in {"check_mode", "list_deployments", "exited"}
            /\ Ended(p) => exitCode[p] = 1

\* the display option and a mode flag given on an empty directory
C13_Witness ==
    /\ Deployments = {}
    /\ Ended("p1")
    /\ exitCode["p1"] = 1
    /\ args["p1"].display_deployments
    /\ args["p1"].cluster
    /\ args["p1"].deployment = "ghost"

(***************************************************************************)
(* C14: when no deployment is named and exactly one configuration document *)
(* exists, that deployment (the stem of the document's file name) is the   *)
(* one passed to the pipeline, and the run does not fail for ambiguity:    *)
(* a run with a mode flag and without the display option goes on to _main  *)
(* with that document.                                                     *)
(***************************************************************************)
OnlyDeployment(p) ==
    /\ pc[p] # "idle"
    /\ Unnamed(args[p])
    /\ Cardinality(Deployments) = 1

C14_OnlyDeploymentIsSelected ==
    \A p \in Procs :
        OnlyDeployment(p) =>
            /\ deployment_name[p] \in Deployments \cup {""}
            /\ (/\ ~ModeMissing(args[p])
                /\ ~args[p].display_deployments
                /\ pc[p] \notin {"check_mode", "list_deployments", "select"}) =>
                  /\ deployment_name[p] \in Deployments
                  /\ \/ pc[p] = "load"
                     \/ deployment[p] = files[deployment_name[p]]

\* an install run without a name which has invoked commands for "prod"
C14_Witness ==
    /\ OnlyDeployment("p1")
    /\ deployment_name["p1"] = "prod"
    /\ deployment["p1"] = files["prod"]
    /\ args["p1"].okd
    /\ Len(invoked["p1"]) >= 3

(***************************************************************************)
(* C15 (as stated): when no deployment is named and more than one          *)
(* configuration document exists, the process exits with code 1 without    *)
(* selecting a deployment, without asking for confirmation and without     *)
(* invoking any command.                                                   *)
(***************************************************************************)
SeveralDeployments(p) ==
    /\ pc[p] # "idle"
    /\ Unnamed(args[p])
    /\ Cardinality(Deployments) > 1

NothingSelected(p) ==
    /\ deployment_name[p] = ""
    /\ deployment[p] = NoDocument
    /\ confirmation_word[p] = ""
    /\ invoked[p] = <<>>
    /\ pc[p] \in {"check_mode", "list_deployments", "select", "exited"}

C15_Original ==
    \A p \in Procs :
        SeveralDeployments(p) =>
            /\ NothingSelected(p)
            /\ Ended(p) => exitCode[p] = 1

(***************************************************************************)
(* C15 (amended): when no deployment is named and more than one            *)
(* configuration document exists, the process exits without selecting a    *)
(* deployment, without asking for confirmation and without invoking any    *)
(* command; its exit code is 1, except that it is 0 when the display       *)
(* option is given together with a mode flag (the documents are listed     *)
(* before the ambiguity is looked at).                                     *)
(***************************************************************************)
ListsDeployments(a) == a.display_deployments /\ ~ModeMissing(a)

C15_AmbiguousSelectsNothing ==
    \A p \in Procs :
        SeveralDeployments(p) =>
            /\ NothingSelected(p)
            /\ Ended(p) =>
                  exitCode[p] = IF ListsDeployments(args[p]) THEN 0 ELSE 1

\* an install run without a name and without the display option, ended with
\* exit code 1 on a directory of two documents
C15_Witness ==
    /\ SeveralDeployments("p1")
    /\ Ended("p1")
    /\ exitCode["p1"] = 1
    /\ args["p1"].okd
    /\ ~args["p1"].display_deployments
    /\ args["p1"].auto_acknowledge

(***************************************************************************)
(* C16 (as stated): whenever the display option is given the process only  *)
(* reads: it invokes no command, asks for no confirmation, and exits with  *)
(* code 0.                                                                 *)
(***************************************************************************)
DisplayGiven(p) == pc[p] # "idle" /\ args[p].display_deployments

\* no document loaded, nothing asked, no command invoked
PureRead(p) ==
    /\ deployment[p] = NoDocument
    /\ confirmation_word[p] = ""
    /\ invoked[p] = <<>>
    /\ pc[p] \in {"check_mode", "list_deployments", "exited"}

C16_Original ==
    \A p \in Procs :
        DisplayGiven(p) =>
            /\ PureRead(p)
            /\ Ended(p) => exitCode[p] = 0

(***************************************************************************)
(* C16 (amended): whenever the display option is given the process only    *)
(* reads: it invokes no command and asks for no confirmation.  It exits    *)
(* with code 0 when a mode flag is given too and the deployments directory *)
(* holds a document, and with code 1 when no mode flag is given or the     *)
(* directory is empty.                                                     *)
(***************************************************************************)
C16_DisplayOnlyReads ==
    \A p \in Procs :
        DisplayGiven(p) =>
            /\ PureRead(p)
            /\ Ended(p) =>
                  exitCode[p] = IF (args[p].cluster \/ args[p].okd)
                                      /\ Deployments # {}
                                   THEN 0 ELSE 1

\* the display option with a mode flag and the name of a deployment which
\* does not exist, on a directory of two documents: exit code 0
C16_Witness ==
    /\ DisplayGiven("p1")
    /\ Ended("p1")
    /\ exitCode["p1"] = 0
    /\ Cardinality(Deployments) = 2
    /\ args["p1"].deployment = "ghost"
    /\ ~args["p1"].auto_acknowledge

(***************************************************************************)
(* C17: --quiet changes no semantics.  Two runs whose command lines differ *)
(* in --quiet only, with the same configuration and environment, the same  *)
(* answer of the operator and the same outcomes of the commands, invoke    *)
(* the same commands in the same order with the same working directories,  *)
(* and end with the same result and exit code.                             *)
(***************************************************************************)
\* the command lines and working directories process p has passed to io.run
Commands(p) ==
    [i \in 1..Len(invoked[p]) |->
        [cmd |-> invoked[p][i].cmd, cwd |-> invoked[p][i].cwd]]

Shorter(m, n) == IF m <= n THEN m ELSE n

\* as far as both runs went, their commands had the same outcomes
SameOutcomes(p, q) ==
    \A i \in 1..Shorter(Len(invoked[p]), Len(invoked[q])) :
        invoked[p][i].rv = invoked[q][i].rv

\* both runs found the clone of the upstream repository present, or both
\* found it absent: a run invokes git clone if and only if it finds no clone
SameCloneFound(p, q) ==
    Invoked(p, "clone", TRUE) \/ Invoked(p, "clone", FALSE)
        <=> Invoked(q, "clone", TRUE) \/ Invoked(q, "clone", FALSE)

DifferInQuietOnly(p, q) ==
    /\ Ended(p) /\ Ended(q)
    /\ args[q] = [args[p] EXCEPT !.quiet = ~@]
    /\ env[p] = env[q]
    /\ deployment[p] = deployment[q]
    /\ DeclinedRun(p) = DeclinedRun(q)
    /\ SameOutcomes(p, q)
    /\ SameCloneFound(p, q)

C17_QuietChangesNothing ==
    /\ \A p \in Procs : \A i \in 1..Len(invoked[p]) :
          invoked[p][i].quiet = args[p].quiet
    /\ DifferInQuietOnly("p1", "p2") =>
          /\ Commands("p1") = Commands("p2")
          /\ Stages("p1") = Stages("p2")
          /\ success["p1"] = success["p2"]
          /\ raised["p1"] = raised["p2"]
          /\ exitCode["p1"] = exitCode["p2"]

\* two install runs, the first of them quiet, which both went as far as the
\* last playbook and saw it fail
C17_Witness ==
    /\ DifferInQuietOnly("p1", "p2")
    /\ args["p1"].quiet /\ args["p1"].okd
    /\ ~args["p1"].auto_acknowledge
    /\ Len(invoked["p1"]) = 8 /\ Len(invoked["p2"]) = 8
    /\ invoked["p2"][8].stage = "post_os"
    /\ exitCode["p2"] = 1

(***************************************************************************)
(* C18 (as stated): in both modes no command of a mode (terraform,         *)
(* ansible-playbook, git) is invoked unless, earlier in the run, render.py *)
(* (without --skip-rendering), then pip install --upgrade pip, then        *)
(* pip install ansible==<version> were invoked in that order and all       *)
(* succeeded; and the two pip commands, which have no skip flag, are       *)
(* invoked in every run that passes the confirmation.                      *)
(***************************************************************************)
\* every command of a mode comes after the whole preamble, which succeeded
PreambleFirst(p) ==
    \A i \in 1..Len(invoked[p]) :
        invoked[p][i].stage \in ClusterStages \cup InstallStages =>
            /\ i > Len(Preamble(args[p]))
            /\ SubSeq(Stages(p), 1, Len(Preamble(args[p]))) = Preamble(args[p])
            /\ \A j \in 1..Len(Preamble(args[p])) : invoked[p][j].rv

\* process p got through the mode check, the selection of the deployment, the
\* inventory check and the confirmation
PassedConfirmation(p) ==
    /\ ~ModeMissing(args[p])
    /\ Has(deployment[p], "openshift.inventory_dir")
    /\ Get(deployment[p], "openshift.inventory_dir") \in inventories
    /\ Has(deployment[p], "name")
    /\ pc[p] \notin {"inventory", "hello"}
    /\ ~DeclinedRun(p)

InvokedAt(p, stage) == Invoked(p, stage, TRUE) \/ Invoked(p, stage, FALSE)

C18_Original ==
    \A p \in Procs :
        /\ PreambleFirst(p)
        /\ (PassedConfirmation(p) /\ Ended(p)) =>
              InvokedAt(p, "pip_upgrade") /\ InvokedAt(p, "pip_ansible")

(***************************************************************************)
(* C18 (amended): in both modes no command of a mode is invoked unless,    *)
(* earlier in the run, render.py (without --skip-rendering), then          *)
(* pip install --upgrade pip, then pip install ansible==<version> were     *)
(* invoked in that order and all succeeded.  The two pip commands have no  *)
(* skip flag: in a run that passes the confirmation pip install --upgrade  *)
(* pip is invoked unless render.py failed, and pip install                 *)
(* ansible==<version> is invoked unless render.py or the upgrade of pip    *)
(* failed or the configuration has no ansible.version.                     *)
(***************************************************************************)
C18_PreambleBeforeMode ==
    \A p \in Procs :
        /\ PreambleFirst(p)
        /\ (PassedConfirmation(p) /\ pc[p] \notin {"render", "pip_upgrade"}) =>
              /\ InvokedAt(p, "pip_upgrade") \/ Invoked(p, "render", FALSE)
              /\ pc[p] # "pip_ansible" =>
                    \/ InvokedAt(p, "pip_ansible")
                    \/ Invoked(p, "render", FALSE)
                    \/ Invoked(p, "pip_upgrade", FALSE)
                    \/ raised[p] = "ansible.version"

\* an install run with every skip flag set but --skip-openshift, which has
\* invoked the two pip commands, git checkout and a playbook
C18_Witness ==
    /\ PassedConfirmation("p1")
    /\ args["p1"].okd /\ ~args["p1"].cluster
    /\ args["p1"].skip_rendering /\ args["p1"].skip_terraform
    /\ args["p1"].skip_pre_openshift /\ args["p1"].skip_post_openshift
    /\ Stages("p1") = <<"pip_upgrade", "pip_ansible", "checkout", "play">>

(***************************************************************************)
(* C19: in cluster mode terraform output is invoked only in runs where     *)
(* terraform init and terraform apply were both invoked earlier and        *)
(* succeeded, and where the pre-install pass (the bastion playbook) was    *)
(* either skipped or invoked and succeeded; it is never invoked with       *)
(* --skip-terraform.                                                       *)
(***************************************************************************)
\* the command of the stage was invoked before the i-th command of process p
\* and succeeded
SucceededBefore(p, stage, i) ==
    \E j \in 1..(i - 1) :
        invoked[p][j].stage = stage /\ invoked[p][j].rv

C19_OutputFollowsProvisioning ==
    \A p \in Procs :
        \A i \in 1..Len(invoked[p]) :
            invoked[p][i].stage = "terraform_output" =>
                /\ args[p].cluster
                /\ ~args[p].skip_terraform
                /\ \E k \in 1..(i - 1) :
                      /\ invoked[p][k].stage = "terraform_apply"
                      /\ invoked[p][k].rv
                      /\ SucceededBefore(p, "terraform_init", k)
                /\ IF args[p].skip_pre_openshift
                      THEN ~InvokedAt(p, "bastion")
                      ELSE /\ SucceededBefore(p, "bastion", i)
                           /\ ~Invoked(p, "bastion", FALSE)

\* a cluster run which has invoked terraform output after terraform init,
\* terraform apply and the bastion playbook
C19_Witness ==
    /\ args["p1"].cluster
    /\ ~args["p1"].skip_pre_openshift
    /\ InvokedAt("p1", "terraform_output")
    /\ InvokedAt("p1", "bastion")
    /\ Ended("p1")

=============================================================================
